---- MODULE Spec2Model ----
(***************************************************************************)
(* Order-flow-imbalance pipeline of scripts/: the loader, the per-level    *)
(* OFI computation, the aggregation across levels, the short-term return   *)
(* column, the regression and the plot, run in the order of main().        *)
(*                                                                         *)
(* A table (pandas DataFrame) is a sequence of rows; a row is a record of  *)
(* its cells.  A cell is a float: a rational n/d in lowest terms, a NaN    *)
(* (missing value) or an infinity.  Level i of the code (0-based) is       *)
(* position i+1 of the per-level sequences of a row.                       *)
(***************************************************************************)
EXTENDS Integers, Sequences, FiniteSets, TLC

\* Bounds of the model.
MaxRows == 2
NumLevels == 2

\* pc: the statement of main() to run next; file: the rows of the CSV file;
\* df: the table main() holds; err: the exception that ended the run;
\* results: what run_regression_ofi_vs_returns returned; out: the lines printed.
\* History: call holds the arguments of the calls made so far, log the stages
\* run so far, and pre[k] the table as stage log[k] found it.
VARIABLES pc, file, df, err, results, out, call, pre, log

vars == <<pc, file, df, err, results, out, call, pre, log>>

----------------------------------------------------------------------------
\* Floating-point cells

RECURSIVE GCD(_, _)
GCD(a, b) == IF b = 0 THEN a ELSE GCD(b, a % b)

Abs(n) == IF n < 0 THEN -n ELSE n

Sign(n) == IF n < 0 THEN -1 ELSE IF n > 0 THEN 1 ELSE 0

NaN == [k |-> "nan", n |-> 0, d |-> 1]

Inf(s) == [k |-> "inf", n |-> s, d |-> 1]

\* n/d with d > 0, in lowest terms
Rat(n, d) ==
    LET g == GCD(Abs(n), d)
    IN  [k |-> "num", n |-> n \div g, d |-> d \div g]

Num(n) == Rat(n, 1)

IsNa(x) == x.k = "nan"

IsInf(x) == x.k = "inf"

IsNum(x) == x.k = "num"

VNeg(x) == IF IsNa(x) THEN NaN ELSE [x EXCEPT !.n = -x.n]

VAdd(x, y) ==
    IF IsNa(x) \/ IsNa(y) THEN NaN
    ELSE IF IsInf(x) /\ IsInf(y) THEN (IF x.n = y.n THEN x ELSE NaN)
    ELSE IF IsInf(x) THEN x
    ELSE IF IsInf(y) THEN y
    ELSE Rat(x.n * y.d + y.n * x.d, x.d * y.d)

VSub(x, y) == VAdd(x, VNeg(y))

VMul(x, y) ==
    IF IsNa(x) \/ IsNa(y) THEN NaN
    ELSE IF IsInf(x) \/ IsInf(y)
         THEN (IF Sign(x.n) * Sign(y.n) = 0 THEN NaN
               ELSE Inf(Sign(x.n) * Sign(y.n)))
    ELSE Rat(x.n * y.n, x.d * y.d)

\* IEEE division: x/0 is an infinity, 0/0 is NaN
VDiv(x, y) ==
    IF IsNa(x) \/ IsNa(y) THEN NaN
    ELSE IF IsInf(x) /\ IsInf(y) THEN NaN
    ELSE IF IsInf(x) THEN Inf(x.n * (IF y.n < 0 THEN -1 ELSE 1))
    ELSE IF IsInf(y) THEN Num(0)
    ELSE IF y.n = 0
         THEN (IF x.n = 0 THEN NaN ELSE Inf(Sign(x.n)))
    ELSE Rat(x.n * y.d * Sign(y.n), x.d * Abs(y.n))

----------------------------------------------------------------------------
\* Tables

Perms(n) == {p \in [1..n -> 1..n] : \A i, j \in 1..n : p[i] = p[j] => i = j}

\* The cell of a per-level column, e.g. bids_distance_<level>
LevelCell(r, col, level) ==
    CASE col = "bids_distance" -> r.bids_distance[level + 1]
      [] col = "asks_distance" -> r.asks_distance[level + 1]
      [] col = "bids_notional" -> r.bids_notional[level + 1]
      [] col = "asks_notional" -> r.asks_notional[level + 1]

\* Every cell of a row, over all the columns the table has
Cells(r) ==
    <<r.system_time, r.midpoint>> \o r.bids_distance \o r.asks_distance
        \o r.bids_notional \o r.asks_notional \o r.ofi \o r.agg \o r.ret

HasNa(r) == LET cs == Cells(r) IN \E c \in 1..Len(cs) : IsNa(cs[c])

\* DataFrame.dropna(): the rows with a missing value in any column go,
\* the others keep their index labels
DropNa(t) == SelectSeq(t, LAMBDA r : ~HasNa(r))

\* DataFrame.reset_index(drop=True)
ResetIndex(t) == [i \in DOMAIN t |-> [t[i] EXCEPT !.index = i - 1]]

Fill0(x) == IF IsNa(x) THEN Num(0) ELSE x

FillSeq0(s) == [i \in DOMAIN s |-> Fill0(s[i])]

\* DataFrame.fillna(0): every missing cell of every column becomes 0
FillNa(t) ==
    [i \in DOMAIN t |->
        [t[i] EXCEPT !.system_time = Fill0(@),
                     !.midpoint = Fill0(@),
                     !.bids_distance = FillSeq0(@),
                     !.asks_distance = FillSeq0(@),
                     !.bids_notional = FillSeq0(@),
                     !.asks_notional = FillSeq0(@),
                     !.ofi = FillSeq0(@),
                     !.agg = FillSeq0(@),
                     !.ret = FillSeq0(@)]]

\* Order of sort_values on system_time: ascending, NaT last
TimeLE(a, b) == IsNa(b) \/ (~IsNa(a) /\ a.n <= b.n)

\* DataFrame.sort_values(by='system_time') sorts with the default
\* kind='quicksort', which is not stable: every ordering of the rows that is
\* ascending in system_time is a possible outcome.
SortOrders(t) ==
    {p \in Perms(Len(t)) :
        \A i, j \in 1..Len(t) :
            i < j => TimeLE(t[p[i]].system_time, t[p[j]].system_time)}

SortValues(t, p) == [i \in DOMAIN t |-> t[p[i]]]

\* Series.shift(k): row i takes the value of row i - k, NaN off the table
Shift(s, k) ==
    [i \in DOMAIN s |-> IF (i - k) \in DOMAIN s THEN s[i - k] ELSE NaN]

\* Elementwise arithmetic of two Series
SAdd(a, b) == [i \in DOMAIN a |-> VAdd(a[i], b[i])]

SSub(a, b) == [i \in DOMAIN a |-> VSub(a[i], b[i])]

SMul(a, b) == [i \in DOMAIN a |-> VMul(a[i], b[i])]

SDiv(a, b) == [i \in DOMAIN a |-> VDiv(a[i], b[i])]

SDivBy(a, c) == [i \in DOMAIN a |-> VDiv(a[i], c)]

SSubBy(a, c) == [i \in DOMAIN a |-> VSub(a[i], c)]

Midpoints(t) == [i \in DOMAIN t |-> t[i].midpoint]

----------------------------------------------------------------------------
\* ofi_calculation.py

reconstruct_price(t, level, side) ==
    SAdd(Midpoints(t),
         [i \in DOMAIN t |-> LevelCell(t[i], side \o "s_distance", level)])

reconstruct_size(t, level, side) ==
    [i \in DOMAIN t |-> LevelCell(t[i], side \o "s_notional", level)]

\* OfiColumn with the previous row taken for the current one on the ask side
OfiColumnAskUnshifted(t, level) ==
    LET bid_price == reconstruct_price(t, level, "bid")
        ask_price == reconstruct_price(t, level, "ask")
        bid_size == reconstruct_size(t, level, "bid")
        ask_size == reconstruct_size(t, level, "ask")
    IN  SSub(SDivBy(SMul(SSub(bid_price, Shift(bid_price, 1)),
                         SAdd(bid_size, Shift(bid_size, 1))), Num(2)),
             SDivBy(SMul(SSub(ask_price, Shift(ask_price, 1)),
                         SAdd(ask_size, ask_size)), Num(2)))

\* The column OFI_level_<level> of the loop body of compute_ofi_for_btc
OfiColumn(t, level) ==
    LET bid_price == reconstruct_price(t, level, "bid")
        ask_price == reconstruct_price(t, level, "ask")
        bid_size == reconstruct_size(t, level, "bid")
        ask_size == reconstruct_size(t, level, "ask")
        bid_price_prev == Shift(bid_price, 1)
        ask_price_prev == Shift(ask_price, 1)
        bid_size_prev == Shift(bid_size, 1)
        ask_size_prev == Shift(ask_size, 1)
    IN  SSub(SDivBy(SMul(SSub(bid_price, bid_price_prev),
                         SAdd(bid_size, bid_size_prev)), Num(2)),
             SDivBy(SMul(SSub(ask_price, ask_price_prev),
                         SAdd(ask_size, ask_size_prev)), Num(2)))

\* The table with the columns OFI_level_0 .. OFI_level_<n-1> set
WithOfiColumns(t, n) ==
    [i \in DOMAIN t |->
        [t[i] EXCEPT !.ofi = [lv \in 1..n |-> OfiColumn(t, lv - 1)[i]]]]

\* compute_ofi_for_btc without its final fillna
compute_ofi_no_fillna(t, max_levels, p) ==
    LET sorted == ResetIndex(SortValues(t, p))
    IN  IF max_levels > NumLevels
        THEN [err |-> "KeyError", df |-> WithOfiColumns(sorted, NumLevels)]
        ELSE [err |-> "", df |-> WithOfiColumns(sorted, max_levels)]

\* compute_ofi_for_btc dropping the rows with a missing value, not filling them
compute_ofi_dropna(t, max_levels, p) ==
    LET sorted == ResetIndex(SortValues(t, p))
    IN  IF max_levels > NumLevels
        THEN [err |-> "KeyError", df |-> WithOfiColumns(sorted, NumLevels)]
        ELSE [err |-> "", df |-> DropNa(WithOfiColumns(sorted, max_levels))]

\* compute_ofi_for_btc(df, max_levels), the sort having come out as order p.
\* A level the file has no columns for raises KeyError out of the loop:
\* the columns of the levels before it are set, and nothing is filled.
compute_ofi_for_btc(t, max_levels, p) ==
    LET sorted == ResetIndex(SortValues(t, p))
    IN  IF max_levels > NumLevels
        THEN [err |-> "KeyError", df |-> WithOfiColumns(sorted, NumLevels)]
        ELSE [err |-> "", df |-> FillNa(WithOfiColumns(sorted, max_levels))]

RECURSIVE SumSkipNa(_)
SumSkipNa(s) ==
    IF Len(s) = 0 THEN Num(0)
    ELSE VAdd(IF IsNa(Head(s)) THEN Num(0) ELSE Head(s), SumSkipNa(Tail(s)))

CountNotNa(s) == Cardinality({i \in 1..Len(s) : ~IsNa(s[i])})

\* DataFrame.sum(axis=1): missing cells are skipped, no cell at all sums to 0
RowSum(s) == SumSkipNa(s)

\* The mean taken over one cell too many
RowMeanOffByOne(s) == VDiv(SumSkipNa(s), Num(CountNotNa(s) + 1))

\* DataFrame.mean(axis=1): the mean of the cells present, NaN when none is
RowMean(s) == VDiv(SumSkipNa(s), Num(CountNotNa(s)))

\* A value of PCA.fit_transform: a finite float this model does not compute
Projected == [k |-> "pca", n |-> 0, d |-> 1]

OfiCols(r, max_levels) == SubSeq(r.ofi, 1, max_levels)

\* df['OFI_aggregated'] = column
WithAggregated(t, column) ==
    [i \in DOMAIN t |-> [t[i] EXCEPT !.agg = <<column[i]>>]]

PcaColumn(t, max_levels) == [i \in DOMAIN t |-> Projected]

SumColumn(t, max_levels) ==
    [i \in DOMAIN t |-> RowSum(OfiCols(t[i], max_levels))]

MeanColumn(t, max_levels) ==
    [i \in DOMAIN t |-> RowMean(OfiCols(t[i], max_levels))]

\* integrate_multi_level_ofi with the sum as the default of an unknown method
integrate_default_sum(t, max_levels, method) ==
    CASE method = "PCA" ->
            IF Len(t) = 0 \/ max_levels = 0
            THEN [err |-> "ValueError", df |-> t]
            ELSE [err |-> "",
                  df |-> WithAggregated(t, PcaColumn(t, max_levels))]
      [] method = "avg" ->
            [err |-> "", df |-> WithAggregated(t, MeanColumn(t, max_levels))]
      [] OTHER -> [err |-> "", df |-> WithAggregated(t, SumColumn(t, max_levels))]

\* integrate_multi_level_ofi(df, max_levels, method)
integrate_multi_level_ofi(t, max_levels, method) ==
    CASE method = "PCA" ->
            IF Len(t) = 0 \/ max_levels = 0
            THEN [err |-> "ValueError", df |-> t]
            ELSE [err |-> "",
                  df |-> WithAggregated(t, PcaColumn(t, max_levels))]
      [] method = "sum" ->
            [err |-> "", df |-> WithAggregated(t, SumColumn(t, max_levels))]
      [] method = "avg" ->
            [err |-> "", df |-> WithAggregated(t, MeanColumn(t, max_levels))]
      [] OTHER -> [err |-> "ValueError", df |-> t]

----------------------------------------------------------------------------
\* cross_impact_analysis.py

\* The return over the past horizon rows, not the coming ones
PastRet(t, horizon) ==
    SSubBy(SDiv(Shift(Midpoints(t), horizon), Midpoints(t)), Num(1))

\* The column future_ret_<horizon>
FutureRet(t, horizon) ==
    SSubBy(SDiv(Shift(Midpoints(t), -horizon), Midpoints(t)), Num(1))

\* compute_short_term_returns that keeps the rows without a return
returns_keep_all(t, horizon) ==
    [i \in DOMAIN t |-> [t[i] EXCEPT !.ret = <<FutureRet(t, horizon)[i]>>]]

\* compute_short_term_returns(df, horizon)
compute_short_term_returns(t, horizon) ==
    DropNa([i \in DOMAIN t |->
                [t[i] EXCEPT !.ret = <<FutureRet(t, horizon)[i]>>]])

Finite(x) == ~IsNa(x) /\ ~IsInf(x)

\* run_regression_ofi_vs_returns: LinearRegression.fit refuses an empty
\* sample and a NaN or an infinity in X or y; the fit itself is the library's
run_regression_ofi_vs_returns(t) ==
    IF Len(t) = 0
       \/ \E i \in 1..Len(t) : ~Finite(t[i].agg[1]) \/ ~Finite(t[i].ret[1])
    THEN [err |-> "ValueError", results |-> "none"]
    ELSE [err |-> "", results |-> "fitted"]

----------------------------------------------------------------------------
\* data_preprocessing.py

\* The timestamp strings of the file: missing, well-formed, malformed
to_datetime(s) ==
    CASE s = "" -> NaN
      [] s = "00:01" -> Num(1)
      [] s = "00:02" -> Num(2)
      [] s = "0:02" -> Num(2)

Parseable(s) == s \in {"", "00:01", "00:02", "0:02"}

\* pd.read_csv: a RangeIndex, and none of the derived columns
read_csv(f) ==
    [i \in DOMAIN f |->
        [id |-> i, index |-> i - 1,
         system_time |-> f[i].system_time,
         midpoint |-> f[i].midpoint,
         bids_distance |-> f[i].bids_distance,
         asks_distance |-> f[i].asks_distance,
         bids_notional |-> f[i].bids_notional,
         asks_notional |-> f[i].asks_notional,
         ofi |-> <<>>, agg |-> <<>>, ret |-> <<>>]]

ParseTimes(t) ==
    [i \in DOMAIN t |-> [t[i] EXCEPT !.system_time = to_datetime(@)]]

\* The cleaning steps of load_and_preprocess_data after the parse, the sort
\* having come out as order p
Preprocess(t, p) == ResetIndex(DropNa(ResetIndex(SortValues(t, p))))

----------------------------------------------------------------------------
\* Arguments and input files

LevelArgs == 0..(NumLevels + 1)

Methods == {"sum", "avg", "PCA", "median"}

Horizons == (-1)..(MaxRows + 1)

BookColumns ==
    {"bids_distance", "asks_distance", "bids_notional", "asks_notional"}

\* An order book with bids below and asks above the midpoint, and sizes that
\* differ by side and by level; a tweak moves one cell of its best level by one.
NoTweak == "none"

BookCell(col, lv, tweak) ==
    LET base == CASE col = "bids_distance" -> -lv
                  [] col = "asks_distance" -> lv
                  [] col = "bids_notional" -> lv + 1
                  [] col = "asks_notional" -> 1
    IN  Num(base + (IF tweak = col /\ lv = 1 THEN 1 ELSE 0))

FileRow(ts, mid, tweak) ==
    [system_time |-> ts, midpoint |-> mid,
     bids_distance |-> [lv \in 1..NumLevels |-> BookCell("bids_distance", lv, tweak)],
     asks_distance |-> [lv \in 1..NumLevels |-> BookCell("asks_distance", lv, tweak)],
     bids_notional |-> [lv \in 1..NumLevels |-> BookCell("bids_notional", lv, tweak)],
     asks_notional |-> [lv \in 1..NumLevels |-> BookCell("asks_notional", lv, tweak)]]

FilesOf(rows) == UNION {[1..n -> rows] : n \in 0..MaxRows}

\* Rows of the files of a whole run.  A row departs from the plain row in its
\* timestamp (missing, earlier, written another way, malformed) or in its
\* midpoint (missing, zero, higher).
MainRows ==
    {FileRow(ts, Num(1), NoTweak) : ts \in {"", "00:01", "00:02", "0:02", "bad"}}
        \cup {FileRow("00:02", mid, NoTweak) : mid \in {NaN, Num(0), Num(2)}}

\* Rows of the files behind the tables of the OFI engine: complete rows; a
\* row departs from the plain row in its time, its midpoint or one book cell
EngineRows ==
    {FileRow(ts, Num(1), NoTweak) : ts \in {"00:01", "00:02"}}
        \cup {FileRow("00:02", Num(2), NoTweak)}
        \cup {FileRow("00:02", Num(1), tw) : tw \in BookColumns}

NoCall == [L |-> 0, method |-> "", h |-> 0]

----------------------------------------------------------------------------
\* main(): one action per statement

Raise(e) == pc' = "error" /\ err' = e

\* 1) df = load_and_preprocess_data(csv_path)
Load ==
    /\ pc = "load"
    /\ log' = Append(log, "load")
    /\ pre' = Append(pre, df)
    /\ UNCHANGED <<file, results, out, call>>
    /\ IF \E i \in 1..Len(file) : ~Parseable(file[i].system_time)
       THEN Raise("ValueError") /\ df' = df
       ELSE \E p \in SortOrders(ParseTimes(read_csv(file))) :
                /\ df' = Preprocess(ParseTimes(read_csv(file)), p)
                /\ pc' = "ofi"
                /\ err' = err

\* 2) df = compute_ofi_for_btc(df, max_levels)
ComputeOfi ==
    /\ pc = "ofi"
    /\ log' = Append(log, "ofi")
    /\ pre' = Append(pre, df)
    /\ UNCHANGED <<file, results, out>>
    /\ \E L \in LevelArgs, p \in SortOrders(df) :
        LET r == compute_ofi_for_btc(df, L, p)
        IN  /\ call' = [call EXCEPT !.L = L]
            /\ df' = r.df
            /\ err' = r.err
            /\ pc' = IF r.err = "" THEN "agg" ELSE "error"

\* 3) df = integrate_multi_level_ofi(df, max_levels, method)
Integrate ==
    /\ pc = "agg"
    /\ log' = Append(log, "agg")
    /\ pre' = Append(pre, df)
    /\ UNCHANGED <<file, results, out>>
    /\ \E m \in Methods :
        LET r == integrate_multi_level_ofi(df, call.L, m)
        IN  /\ call' = [call EXCEPT !.method = m]
            /\ df' = r.df
            /\ err' = r.err
            /\ pc' = IF r.err = "" THEN "ret" ELSE "error"

\* 4) df = compute_short_term_returns(df, horizon)
Returns ==
    /\ pc = "ret"
    /\ log' = Append(log, "ret")
    /\ pre' = Append(pre, df)
    /\ UNCHANGED <<file, results, out, err>>
    /\ \E h \in Horizons :
        /\ call' = [call EXCEPT !.h = h]
        /\ df' = compute_short_term_returns(df, h)
        /\ pc' = "reg"

\* The regression with its exception swallowed
RegressSwallowed ==
    /\ pc = "reg"
    /\ log' = Append(log, "reg")
    /\ pre' = Append(pre, df)
    /\ UNCHANGED <<file, df, out, call>>
    /\ LET r == run_regression_ofi_vs_returns(df)
       IN  /\ results' = r.results
           /\ err' = r.err
           /\ pc' = "print"

\* 5) results = run_regression_ofi_vs_returns(df, horizon)
Regress ==
    /\ pc = "reg"
    /\ log' = Append(log, "reg")
    /\ pre' = Append(pre, df)
    /\ UNCHANGED <<file, df, out, call>>
    /\ LET r == run_regression_ofi_vs_returns(df)
       IN  /\ results' = r.results
           /\ err' = r.err
           /\ pc' = IF r.err = "" THEN "print" ELSE "error"

\* the four print statements after the regression
PrintResults ==
    /\ pc = "print"
    /\ log' = Append(log, "print")
    /\ out' = out \o <<"Regression results", "Coefficient", "Intercept", "R^2">>
    /\ pre' = Append(pre, df)
    /\ pc' = "viz"
    /\ UNCHANGED <<file, df, err, results, call>>

\* 6) visualize_ofi_vs_returns(df, horizon)
Visualize ==
    /\ pc = "viz"
    /\ log' = Append(log, "viz")
    /\ pre' = Append(pre, df)
    /\ pc' = "done"
    /\ UNCHANGED <<file, df, err, results, out, call>>

----------------------------------------------------------------------------
\* The whole run of main() on a file, the arguments of the stages left open

Init ==
    /\ file \in FilesOf(MainRows)
    /\ pc = "load"
    /\ df = <<>>
    /\ err = ""
    /\ results = "none"
    /\ out = <<>>
    /\ call = NoCall
    /\ pre = <<>>
    /\ log = <<>>

Next ==
    \/ Load
    \/ ComputeOfi
    \/ Integrate
    \/ Returns
    \/ Regress
    \/ PrintResults
    \/ Visualize

Spec == Init /\ [][Next]_vars

\* The OFI engine on a table the loader returned

InitEngine ==
    /\ file \in FilesOf(EngineRows)
    /\ \E p \in SortOrders(ParseTimes(read_csv(file))) :
            df = Preprocess(ParseTimes(read_csv(file)), p)
    /\ pc = "ofi"
    /\ err = ""
    /\ results = "none"
    /\ out = <<>>
    /\ call = NoCall
    /\ pre = <<<<>>>>
    /\ log = <<"load">>

NextEngine ==
    \/ ComputeOfi
    \/ Integrate

SpecEngine == InitEngine /\ [][NextEngine]_vars

----------------------------------------------------------------------------
\* Properties

\* The stage that ran last
LastStage(stage) == Len(log) > 0 /\ log[Len(log)] = stage

\* The table as the given stage found it
Before(stage) == pre[CHOOSE k \in 1..Len(log) : log[k] = stage]

HasRun(stage) == \E k \in 1..Len(log) : log[k] = stage

\* The exception the code raises for an invalid parameter
InvalidParameterError == "ValueError"

IsSorted(t) ==
    \A i \in 1..Len(t) : i > 1 => TimeLE(t[i - 1].system_time, t[i].system_time)

bidPrice(t, i) == VAdd(df[t].midpoint, df[t].bids_distance[i + 1])

askPrice(t, i) == VAdd(df[t].midpoint, df[t].asks_distance[i + 1])

bidSize(t, i) == df[t].bids_notional[i + 1]

askSize(t, i) == df[t].asks_notional[i + 1]

ClosedFormOfi(t, i) ==
    VSub(VDiv(VMul(VSub(bidPrice(t, i), bidPrice(t - 1, i)),
                   VAdd(bidSize(t, i), bidSize(t - 1, i))), Num(2)),
         VDiv(VMul(VSub(askPrice(t, i), askPrice(t - 1, i)),
                   VAdd(askSize(t, i), askSize(t - 1, i))), Num(2)))

\* C1: when compute_ofi_for_btc(df, max_levels=L) has returned, the rows are in
\* timestamp order and, for every level i < L and every row t after the first,
\* OFI_level_i(t) is the closed form over row t and the row before it:
\* (bidPrice(t) - bidPrice(t-1)) * (bidSize(t) + bidSize(t-1)) / 2
\*   - (askPrice(t) - askPrice(t-1)) * (askSize(t) + askSize(t-1)) / 2,
\* with price = midpoint + distance and size = notional.
C1_OfiClosedForm ==
    pc = "agg" =>
        /\ IsSorted(df)
        /\ \A t \in 2..Len(df) : \A i \in 0..(call.L - 1) :
                df[t].ofi[i + 1] = ClosedFormOfi(t, i)

\* A later row whose OFI differs between two levels
C1_Witness ==
    /\ pc = "agg"
    /\ call.L = NumLevels
    /\ \E t \in 2..Len(df) :
            /\ df[t].ofi[1] # Num(0)
            /\ df[t].ofi[1] # df[t].ofi[2]

\* C2: when compute_ofi_for_btc has returned a non-empty table, OFI_level_i of
\* its first row is exactly 0 for every level i < L, whatever the input.
C2_FirstRowZero ==
    (pc = "agg" /\ Len(df) > 0) =>
        /\ Len(df[1].ofi) = call.L
        /\ \A i \in 1..call.L : df[1].ofi[i] = Num(0)

\* A table whose first row holds zeros while a later row does not
C2_Witness ==
    /\ pc = "agg"
    /\ call.L = NumLevels
    /\ Len(df) > 1
    /\ \A i \in 1..call.L : df[1].ofi[i] = Num(0)
    /\ \E t \in 2..Len(df) : df[t].ofi[1] # Num(0)

RECURSIVE PlainSum(_)
PlainSum(s) == IF Len(s) = 0 THEN Num(0) ELSE VAdd(Head(s), PlainSum(Tail(s)))

\* C3: when integrate_multi_level_ofi(df, max_levels=L, method=m) has returned,
\* every row has, with m = 'sum', OFI_aggregated = the sum of OFI_level_0 ..
\* OFI_level_<L-1>, and with m = 'avg' that sum divided by L, so that L times
\* the average is the sum.
C3_SumAndAvg ==
    (pc = "ret" /\ call.method \in {"sum", "avg"}) =>
        \A t \in 1..Len(df) :
            LET total == PlainSum(SubSeq(df[t].ofi, 1, call.L))
            IN  /\ call.method = "sum" => df[t].agg = <<total>>
                /\ call.method = "avg" =>
                    /\ df[t].agg = <<VDiv(total, Num(call.L))>>
                    /\ call.L >= 1 => VMul(Num(call.L), df[t].agg[1]) = total

\* An average over two levels that is not the sum
C3_Witness ==
    /\ pc = "ret"
    /\ call.method = "avg"
    /\ call.L = 2
    /\ \E t \in 1..Len(df) :
            /\ df[t].agg[1] # Num(0)
            /\ VMul(Num(2), df[t].agg[1]) = VAdd(df[t].ofi[1], df[t].ofi[2])

\* C4: integrate_multi_level_ofi called with a method other than 'PCA', 'sum'
\* and 'avg' raises the invalid-parameter exception, and the table is as the
\* call found it: no OFI_aggregated column, no sum in its place.
C4_UnknownMethodRaises ==
    (LastStage("agg") /\ call.method \notin {"PCA", "sum", "avg"}) =>
        /\ pc = "error"
        /\ err = InvalidParameterError
        /\ df = Before("agg")
        /\ \A t \in 1..Len(df) : df[t].agg = <<>>

\* The method 'median' on a table with rows and OFI columns
C4_Witness ==
    /\ LastStage("agg")
    /\ call.method = "median"
    /\ pc = "error"
    /\ Len(df) > 1
    /\ call.L = NumLevels

\* The columns a row has before the OFI engine
InputColumns(r) ==
    [id |-> r.id, system_time |-> r.system_time, midpoint |-> r.midpoint,
     bids_distance |-> r.bids_distance, asks_distance |-> r.asks_distance,
     bids_notional |-> r.bids_notional, asks_notional |-> r.asks_notional]

\* C9: when compute_ofi_for_btc(max_levels=L) and integrate_multi_level_ofi
\* have returned, the table has as many rows as the engine's input; every row
\* of the input is in it once, with its system_time, midpoint, distance and
\* notional cells as they were; and every row has exactly L OFI_level columns
\* and the one OFI_aggregated column.
C9_EngineFrame ==
    pc = "ret" =>
        LET input == Before("ofi")
        IN  /\ Len(df) = Len(input)
            /\ \A i \in 1..Len(input) :
                    Cardinality({t \in 1..Len(df) :
                        InputColumns(df[t]) = InputColumns(input[i])}) = 1
            /\ \A t \in 1..Len(df) :
                    /\ Len(df[t].ofi) = call.L
                    /\ Len(df[t].agg) = 1
                    /\ df[t].ret = <<>>

\* The engine has run over two levels, and its sort has moved a row
C9_Witness ==
    /\ pc = "ret"
    /\ call.L = NumLevels
    /\ \E t \in 1..Len(df) : df[t].id # Before("ofi")[t].id
    /\ \E t \in 1..Len(df) : df[t].ofi[1] # Num(0)

NoMissing(t) == \A i \in 1..Len(t) : ~HasNa(t[i])

\* The position in table t of the row with the given id
PosOf(t, id) == CHOOSE i \in 1..Len(t) : t[i].id = id

\* C5: when compute_short_term_returns(df, horizon=h) has returned, on a table
\* whose midpoints are all > 0, every row left, row t of the input, has a row
\* t+h in the input and holds future_ret_h = midpoint(t+h)/midpoint(t) - 1.
C5_FutureReturn ==
    (pc = "reg"
        /\ \A i \in 1..Len(Before("ret")) :
                IsNum(Before("ret")[i].midpoint) /\ Before("ret")[i].midpoint.n > 0) =>
        LET input == Before("ret")
        IN  \A k \in 1..Len(df) :
                LET t == PosOf(input, df[k].id)
                IN  /\ (t + call.h) \in 1..Len(input)
                    /\ df[k].ret =
                        <<VSub(VDiv(input[t + call.h].midpoint, input[t].midpoint),
                               Num(1))>>

\* Midpoints 1 then 2 and a horizon of 1: the first row holds 2/1 - 1
C5_Witness ==
    /\ pc = "reg"
    /\ call.h = 1
    /\ Len(Before("ret")) = 2
    /\ Before("ret")[1].midpoint = Num(1)
    /\ Before("ret")[2].midpoint = Num(2)
    /\ Len(df) = 1
    /\ df[1].ret = <<Num(1)>>

\* The rows left are rows 1..n of the input, in order, new column apart
KeepsFirstRows(input, n) ==
    /\ Len(df) = n
    /\ \A k \in 1..Len(df) :
            k <= Len(input) /\ [df[k] EXCEPT !.ret = <<>>] = input[k]

\* C6 as stated, on the inputs most favourable to it (a table with no missing
\* value, a horizon 1 <= h < N): on a table of N rows
\* compute_short_term_returns(df, horizon=h) returns exactly N - h rows, the
\* input's rows 0..N-h-1 in order, their other columns as they were.
C6_Original ==
    (pc = "reg"
        /\ call.h >= 1 /\ call.h < Len(Before("ret"))
        /\ NoMissing(Before("ret"))) =>
        KeepsFirstRows(Before("ret"), Len(Before("ret")) - call.h)

\* C6, amended: on a table of N rows with no missing value and no zero
\* midpoint, and 0 <= h <= N, compute_short_term_returns(df, horizon=h) returns
\* exactly N - h rows, the input's rows 0..N-h-1 in order, their other columns
\* as they were.
C6_Amended ==
    (pc = "reg"
        /\ call.h >= 0 /\ call.h <= Len(Before("ret"))
        /\ NoMissing(Before("ret"))
        /\ \A i \in 1..Len(Before("ret")) : Before("ret")[i].midpoint # Num(0)) =>
        KeepsFirstRows(Before("ret"), Len(Before("ret")) - call.h)

\* Two complete rows with OFI columns, a horizon of 1, the first row left
C6_Witness ==
    /\ pc = "reg"
    /\ call.h = 1
    /\ call.L = NumLevels
    /\ Len(Before("ret")) = 2
    /\ NoMissing(Before("ret"))
    /\ \A i \in 1..2 : Before("ret")[i].midpoint # Num(0)
    /\ Len(df) = 1
    /\ df[1].id = Before("ret")[1].id

\* C7 as stated: compute_short_term_returns(df, horizon=h) raises the
\* invalid-parameter exception when h < 1 or h >= the number of rows, and
\* returns no table.
C7_Original ==
    (LastStage("ret") /\ (call.h < 1 \/ call.h >= Len(Before("ret")))) =>
        /\ pc = "error"
        /\ err = InvalidParameterError

\* The rows of the file with no missing cell
Complete(f) == {i \in 1..Len(f) : f[i].system_time # "" /\ ~IsNa(f[i].midpoint)}

\* C8 as stated: the table load_and_preprocess_data returns is ascending in
\* system_time, rows of equal time in file order; no row has a missing value;
\* the index is 0..n-1; every file row with no missing value is in it once.
C8_Original ==
    pc = "ofi" =>
        /\ IsSorted(df)
        /\ \A i, j \in 1..Len(df) :
                (i < j /\ df[i].system_time = df[j].system_time) => df[i].id < df[j].id
        /\ NoMissing(df)
        /\ \A i \in 1..Len(df) : df[i].index = i - 1
        /\ \A i \in Complete(file) :
                Cardinality({k \in 1..Len(df) : df[k].id = i}) = 1

StageOrder == <<"load", "ofi", "agg", "ret", "reg", "print", "viz">>

\* C10: in every run of main the stages run in the order loader, per-level OFI,
\* aggregation, returns, regression, print, plot, each at most once and each
\* once in a run that ends normally; the results are printed before the plot;
\* and once a stage has raised, nothing more runs.
C10_StageOrder ==
    /\ Len(log) <= Len(StageOrder)
    /\ \A k \in 1..Len(log) : log[k] = StageOrder[k]
    /\ pc = "done" => log = StageOrder
    /\ (err = "" /\ pc # "done") => pc = StageOrder[Len(log) + 1]
    /\ HasRun("print") => results = "fitted"
    /\ HasRun("viz") => Len(out) = 4
    /\ err # "" => (pc = "error" /\ ~ENABLED Next)

\* A run that ended normally
C10_Witness ==
    /\ pc = "done"
    /\ log = StageOrder
    /\ err = ""
    /\ Len(df) > 0

====
